---- MODULE Spec2Model ----
(***************************************************************************)
(* A model of the ESharp front end: the Lexer (source/parser/lexer.cpp),   *)
(* the LexerError diagnostic (error.cpp), and the recursive-descent Parser *)
(* (source/parser/parser.cpp).  Characters are one-character strings, a    *)
(* source buffer is a sequence of characters, and every member function is *)
(* an operator over the object's fields, computed as the code computes it. *)
(* A function that can throw returns a record whose ok field is FALSE and  *)
(* whose err field is the exception.                                       *)
(***************************************************************************)
EXTENDS Integers, Sequences, FiniteSets, TLC

VARIABLES
    source,     \* Lexer::source, the text being lexed
    pos,        \* Lexer::pos (0-based index of the next character)
    line,       \* Lexer::line
    col,        \* Lexer::col
    current,    \* Parser::current, the one-token lookahead
    harness,    \* which driver runs: "lexer", "advance", "program", "unit"
    entry,      \* the parser member function the driver calls
    pc,         \* the driver's position
    status,     \* "ok", or "raised" once an exception has left the call
    err,        \* the exception that was raised
    lastOp,     \* the last member function the driver called
    lastTok,    \* the token it returned
    prevOp,     \* the call before that
    prevTok,    \* and its token
    before,     \* the lexer's pos, line, col when the last call began
    ast         \* the tree the last parser call returned

vars == <<source, pos, line, col, current, harness, entry, pc, status, err,
          lastOp, lastTok, prevOp, prevTok, before, ast>>

----------------------------------------------------------------------------
(* Bounds of the model *)

\* longest source buffer the character-level drivers enumerate
MaxLen == 4
\* most operands in an expression the parser drivers enumerate
MaxOperands == 3
\* most words after a statement the parser drivers enumerate
MaxTail == 2
\* most words in a program text the parser drivers enumerate
MaxWords == 3

(* Characters *)

NUL == "NUL"          \* the '\0' that peek() and advance() return at the end
TAB == "\t"
NL == "\n"
QUOTE == "\""
BACKTICK == "BACKTICK"  \* the grave accent of the parser's messages
BACKSLASH == "\\"
SPACE == " "

Digits == {"0", "1", "2", "3", "4", "5", "6", "7", "8", "9"}

Letters ==
    {"a", "b", "c", "d", "e", "f", "g", "h", "i", "j", "k", "l", "m",
     "n", "o", "p", "q", "r", "s", "t", "u", "v", "w", "x", "y", "z",
     "A", "B", "C", "D", "E", "F", "G", "H", "I", "J", "K", "L", "M",
     "N", "O", "P", "Q", "R", "S", "T", "U", "V", "W", "X", "Y", "Z"}

isspace(c) == c \in {" ", "\t", "\n", "\r", "\f"}
isdigit(c) == c \in Digits
isalpha(c) == c \in Letters
isalnum(c) == isalpha(c) \/ isdigit(c)

----------------------------------------------------------------------------
(* LexerError: error.cpp *)

tabSize == 4

RECURSIVE expandTabsFrom(_, _)
expandTabsFrom(text, i) ==
    IF i > Len(text) THEN <<>>
    ELSE (IF text[i] = TAB THEN [k \in 1..tabSize |-> SPACE] ELSE <<text[i]>>)
         \o expandTabsFrom(text, i + 1)

\* expandTabs(line): every tab becomes tabSize spaces
expandTabs(text) == expandTabsFrom(text, 1)

RECURSIVE visualColumnFrom(_, _, _, _)
visualColumnFrom(text, c, i, visualCol) ==
    IF i < c - 1 /\ i < Len(text)
    THEN visualColumnFrom(text, c, i + 1,
            IF text[i + 1] = TAB
            THEN visualCol + (tabSize - (visualCol % tabSize))
            ELSE visualCol + 1)
    ELSE visualCol

\* visualColumn(line, col): walks the first col-1 characters of the raw line
visualColumn(text, c) == visualColumnFrom(text, c, 0, 0)

\* formatMessage(): header, then (for a non-empty source line) the expanded
\* line and caretPos spaces followed by "^"
formatMessage(msg, l, c, sourceLine) ==
    [header |-> [line |-> l, col |-> c, message |-> msg],
     hasSource |-> sourceLine # <<>>,
     displayLine |-> IF sourceLine # <<>> THEN expandTabs(sourceLine) ELSE <<>>,
     caretLine |-> IF sourceLine # <<>>
                   THEN [k \in 1..visualColumn(sourceLine, c) |-> SPACE] \o <<"^">>
                   ELSE <<>>]

LexerError(msg, l, c, sourceLine) ==
    [kind |-> "LexerError", message |-> msg, line |-> l, col |-> c,
     sourceLine |-> sourceLine,
     formattedMessage |-> formatMessage(msg, l, c, sourceLine)]

\* std::runtime_error(msg), as the parser throws it: a message and nothing else
runtime_error(msg) ==
    [kind |-> "runtime_error", message |-> msg, line |-> 0, col |-> 0,
     sourceLine |-> <<>>,
     formattedMessage |-> [header |-> [line |-> 0, col |-> 0, message |-> msg],
                           hasSource |-> FALSE, displayLine |-> <<>>,
                           caretLine |-> <<>>]]

NoError == runtime_error(<<>>)

----------------------------------------------------------------------------
(* Lexer: lexer.cpp.  L is the record of the fields pos, line, col. *)

length == Len(source)

At(i) == source[i + 1]          \* source[i], 0-based as in the code

substr(startPos, n) == SubSeq(source, startPos + 1, startPos + n)

Token(type, lexeme, l, c) == [type |-> type, lexeme |-> lexeme, line |-> l, col |-> c]

NoToken == Token("None", <<>>, 0, 0)

peek(L, offset) == IF L.pos + offset >= length THEN NUL ELSE At(L.pos + offset)

\* advanceCol with a tab counted as one column
advanceCol_tabAsOneColumn(c0, c) == IF c = NL THEN 1 ELSE c0 + 1

\* the column after consuming c at column c0
advanceCol(c0, c) ==
    IF c = NL THEN 1
    ELSE IF c = TAB THEN c0 + (tabSize - ((c0 - 1) % tabSize))
    ELSE c0 + 1

\* advance(): the character consumed and the fields afterwards
advance(L) ==
    IF L.pos >= length THEN [c |-> NUL, L |-> L]
    ELSE LET c == At(L.pos)
         IN [c |-> c,
             L |-> [pos |-> L.pos + 1,
                    line |-> IF c = NL THEN L.line + 1 ELSE L.line,
                    col |-> advanceCol(L.col, c)]]

\* a local: v, computed once, under the name In gives it
Bind(v, In(_)) == CHOOSE y \in {In(x) : x \in {v}} : TRUE

\* match() comparing the character after the next one
match_looksOneTooFar(L, expected) ==
    IF peek(L, 1) = expected THEN [m |-> TRUE, L |-> advance(L).L]
    ELSE [m |-> FALSE, L |-> L]

match(L, expected) ==
    IF peek(L, 0) = expected THEN [m |-> TRUE, L |-> advance(L).L]
    ELSE [m |-> FALSE, L |-> L]

RECURSIVE lineStartOf(_)
lineStartOf(lineStart) ==
    IF lineStart > 0 /\ At(lineStart - 1) # NL THEN lineStartOf(lineStart - 1)
    ELSE lineStart

RECURSIVE lineEndOf(_)
lineEndOf(lineEnd) ==
    IF lineEnd < length /\ At(lineEnd) # NL THEN lineEndOf(lineEnd + 1)
    ELSE lineEnd

getCurrentLine(L) ==
    IF L.pos = 0 THEN <<>>
    ELSE Bind(lineStartOf(L.pos - 1), LAMBDA lineStart :
         Bind(lineEndOf(lineStart), LAMBDA lineEnd :
           substr(lineStart, lineEnd - lineStart)))

error(L, msg) ==
    LexerError(msg, L.line, IF L.col > 1 THEN L.col - 1 ELSE 1, getCurrentLine(L))

\* a call that threw e, the fields being L at the throw
Throw(L, e) == [ok |-> FALSE, L |-> L, tok |-> NoToken, err |-> e]
\* a call that returned tok
Return(L, tok) == [ok |-> TRUE, L |-> L, tok |-> tok, err |-> NoError]

RECURSIVE skipLineComment(_)
skipLineComment(L) ==
    IF peek(L, 0) # NL /\ peek(L, 0) # NUL THEN Bind(advance(L).L, skipLineComment) ELSE L

RECURSIVE skipBlockComment(_)
skipBlockComment(L) ==
    IF ~(peek(L, 0) = "*" /\ peek(L, 1) = "/")
    THEN IF peek(L, 0) = NUL
         THEN Throw(L, error(L, <<"Unterminated block comment">>))
         ELSE Bind(advance(L).L, skipBlockComment)
    ELSE Return(advance(advance(L).L).L, NoToken)

RECURSIVE skipWhitespaceAndComments(_)
skipWhitespaceAndComments(L) ==
    LET c == peek(L, 0)
    IN IF isspace(c) THEN Bind(advance(L).L, skipWhitespaceAndComments)
       ELSE IF c = "/" /\ peek(L, 1) = "/"
            THEN Bind(skipLineComment(L), skipWhitespaceAndComments)
       ELSE IF c = "/" /\ peek(L, 1) = "*"
            THEN Bind(skipBlockComment(advance(advance(L).L).L), LAMBDA r :
                   IF r.ok THEN skipWhitespaceAndComments(r.L) ELSE r)
       ELSE Return(L, NoToken)

keywords(text) ==
    CASE text = <<"f", "n">> -> "Fn"
      [] text = <<"l", "e", "t">> -> "Let"
      [] text = <<"i", "f">> -> "If"
      [] text = <<"e", "l", "s", "e">> -> "Else"
      [] text = <<"r", "e", "t", "u", "r", "n">> -> "Return"
      [] OTHER -> "Identifier"

RECURSIVE scanIdentifier(_)
scanIdentifier(L) ==
    IF isalnum(peek(L, 0)) \/ peek(L, 0) = "_" THEN Bind(advance(L).L, scanIdentifier) ELSE L

\* identifierOrKeyword() returning with the lexer back where the word starts
identifierOrKeyword_rewound(L) ==
    Bind(scanIdentifier(L), LAMBDA L1 :
    Bind(substr(L.pos, L1.pos - L.pos), LAMBDA text :
      Return(L, Token(keywords(text), text, L.line, L.col))))

identifierOrKeyword(L) ==
    LET startPos == L.pos
        startCol == L.col
        startLine == L.line
    IN Bind(scanIdentifier(L), LAMBDA L1 :
       Bind(substr(startPos, L1.pos - startPos), LAMBDA text :
         Return(L1, Token(keywords(text), text, startLine, startCol))))

RECURSIVE scanDigits(_)
scanDigits(L) == IF isdigit(peek(L, 0)) THEN Bind(advance(L).L, scanDigits) ELSE L

\* number() taking the point without looking at the character after it
number_pointWithoutDigit(L) ==
    Bind(scanDigits(L), LAMBDA L1 :
    Bind(peek(L1, 0) = ".", LAMBDA isFloat :
    Bind(IF isFloat THEN scanDigits(advance(L1).L) ELSE L1, LAMBDA L2 :
      Return(L2, Token(IF isFloat THEN "Float" ELSE "Integer",
                       substr(L.pos, L2.pos - L.pos), L.line, L.col)))))

number(L) ==
    LET startPos == L.pos
        startCol == L.col
        startLine == L.line
    IN Bind(scanDigits(L), LAMBDA L1 :
       Bind(peek(L1, 0) = "." /\ isdigit(peek(L1, 1)), LAMBDA isFloat :
       Bind(IF isFloat THEN scanDigits(advance(L1).L) ELSE L1, LAMBDA L2 :
       Bind(substr(startPos, L2.pos - startPos), LAMBDA num :
         Return(L2, Token(IF isFloat THEN "Float" ELSE "Integer",
                          num, startLine, startCol))))))

RECURSIVE stringLoop(_, _)
stringLoop(L, value) ==
    Bind(advance(L), LAMBDA a :
    Bind(a.c, LAMBDA c :
      IF c = NUL THEN Throw(a.L, error(a.L, <<"Unterminated string">>))
      ELSE IF c = QUOTE THEN [ok |-> TRUE, L |-> a.L, value |-> value]
      ELSE IF c = BACKSLASH
           THEN Bind(advance(a.L), LAMBDA b :
                Bind(b.c, LAMBDA e :
                  CASE e = "n" -> stringLoop(b.L, Append(value, NL))
                    [] e = "t" -> stringLoop(b.L, Append(value, TAB))
                    [] e = BACKSLASH -> stringLoop(b.L, Append(value, BACKSLASH))
                    [] e = QUOTE -> stringLoop(b.L, Append(value, QUOTE))
                    [] OTHER -> Throw(b.L, error(b.L, <<"Invalid escape sequence">>))))
      ELSE stringLoop(a.L, Append(value, c))))

\* string(): called by nextToken() once it has consumed the opening quote
string(L) ==
    LET startCol == L.col
        startLine == L.line
    IN Bind(stringLoop(advance(L).L, <<>>), LAMBDA r :
         IF r.ok THEN Return(r.L, Token("String", r.value, startLine, startCol))
         ELSE r)

\* the operators that may take a second character: <<first, second, type>>
compound(c, L) ==
    CASE c = "+" /\ match(L, "=").m -> <<"PlusAssign", <<"+", "=">>>>
      [] c = "+" -> <<"Plus", <<"+">>>>
      [] c = "-" /\ match(L, ">").m -> <<"Arrow", <<"-", ">">>>>
      [] c = "-" /\ match(L, "=").m -> <<"MinusAssign", <<"-", "=">>>>
      [] c = "-" -> <<"Minus", <<"-">>>>
      [] c = "*" /\ match(L, "=").m -> <<"StarAssign", <<"*", "=">>>>
      [] c = "*" -> <<"Star", <<"*">>>>
      [] c = "/" /\ match(L, "=").m -> <<"SlashAssign", <<"/", "=">>>>
      [] c = "/" -> <<"Slash", <<"/">>>>
      [] c = "=" /\ match(L, "=").m -> <<"EqEq", <<"=", "=">>>>
      [] c = "=" -> <<"Eq", <<"=">>>>
      [] c = "!" /\ match(L, "=").m -> <<"Neq", <<"!", "=">>>>
      [] c = "!" -> <<"Bang", <<"!">>>>
      [] c = "<" /\ match(L, "=").m -> <<"Leq", <<"<", "=">>>>
      [] c = "<" -> <<"Less", <<"<">>>>
      [] c = ">" /\ match(L, "=").m -> <<"Geq", <<">", "=">>>>
      [] c = ">" -> <<"Greater", <<">">>>>

punctuation(c) ==
    CASE c = "(" -> "LParen"
      [] c = ")" -> "RParen"
      [] c = "{" -> "LBrace"
      [] c = "}" -> "RBrace"
      [] c = "," -> "Comma"
      [] c = ":" -> "Colon"
      [] c = ";" -> "Semi"

nextToken(L) ==
    Bind(skipWhitespaceAndComments(L), LAMBDA s :
      IF ~s.ok THEN s
      ELSE IF s.L.pos >= length
           THEN Return(s.L, Token("Eof", <<>>, s.L.line, s.L.col))
      ELSE
        Bind(advance(s.L).c, LAMBDA c :
        Bind(advance(s.L).L, LAMBDA L1 :
        Bind(L1.line, LAMBDA startLine :
        Bind(L1.col - 1, LAMBDA startCol :
          IF c \in {"(", ")", "{", "}", ",", ":", ";"}
          THEN Return(L1, Token(punctuation(c), <<c>>, startLine, startCol))
          ELSE IF c \in {"+", "-", "*", "/", "=", "!", "<", ">"}
          THEN Bind(compound(c, L1), LAMBDA op :
               Bind(IF Len(op[2]) = 2 THEN advance(L1).L ELSE L1, LAMBDA L2 :
                 Return(L2, Token(op[1], op[2], startLine, startCol))))
          ELSE IF c = QUOTE THEN string(L1)
          ELSE IF isalpha(c) \/ c = "_"
          THEN identifierOrKeyword([L1 EXCEPT !.pos = @ - 1])
          ELSE IF isdigit(c)
          THEN number([L1 EXCEPT !.pos = @ - 1])
          ELSE Throw(L1, error(L1, <<"Unexpected character: ", c>>)))))))

\* peekToken() restoring pos alone
peekToken_restoresPosOnly(L) ==
    Bind(nextToken(L), LAMBDA r : IF r.ok THEN [r EXCEPT !.L.pos = L.pos] ELSE r)

\* peekToken(): nextToken() between a save and a restore of pos, line, col;
\* an exception leaves before the restore
peekToken(L) ==
    LET savedPos == L.pos
        savedLine == L.line
        savedCol == L.col
    IN Bind(nextToken(L), LAMBDA r :
         IF r.ok
         THEN [r EXCEPT !.L = [pos |-> savedPos, line |-> savedLine, col |-> savedCol]]
         ELSE r)

----------------------------------------------------------------------------
(* The syntax tree: ast.hpp.  A null pointer is Null. *)

Null == [kind |-> "null"]
IntExpr(v) == [kind |-> "Int", value |-> v]
DoubleExpr(v) == [kind |-> "Double", value |-> v]
StringExpr(v) == [kind |-> "String", value |-> v]
CharExpr(v) == [kind |-> "Char", value |-> v]
BoolExpr(v) == [kind |-> "Bool", value |-> v]
VoidExpr == [kind |-> "Void"]
VarExpr(n) == [kind |-> "Var", name |-> n]
BinaryExpr(o, l, r) == [kind |-> "Binary", op |-> o, left |-> l, right |-> r]
CallExpr(c, a) == [kind |-> "Call", callee |-> c, args |-> a]
ReturnStmt(v) == [kind |-> "Return", value |-> v]
IfStmt(c, t, e) == [kind |-> "If", cond |-> c, thenBranch |-> t, elseBranch |-> e]
LetDecl(n, t, i) == [kind |-> "Let", name |-> n, type |-> t, init |-> i]
BlockStmt(stmts) == [kind |-> "Block", statements |-> stmts]
Function(n, rt, p, b) ==
    [kind |-> "Function", name |-> n, returnType |-> rt, params |-> p, body |-> b]
Program(fs) == [kind |-> "Program", functions |-> fs]

----------------------------------------------------------------------------
(* Parser: parser.cpp.  P is the record of the lexer's fields L and of       *)
(* current; a member function returns ok, the fields afterwards, the value  *)
(* it returned (node), for match() whether it matched (m), and err.         *)

\* the text of a token between grave accents, as expect()'s callers write it
Tick(text) == <<BACKTICK, text, BACKTICK>>

Ok(P, node) == [ok |-> TRUE, P |-> P, node |-> node, m |-> TRUE, err |-> NoError]
Fail(P, e) == [ok |-> FALSE, P |-> P, node |-> Null, m |-> FALSE, err |-> e]

stringToVarType(s) ==
    CASE s = <<"I", "n", "t">> -> [ok |-> TRUE, type |-> "Int"]
      [] s = <<"F", "l", "o", "a", "t">> -> [ok |-> TRUE, type |-> "Float"]
      [] s = <<"S", "t", "r", "i", "n", "g">> -> [ok |-> TRUE, type |-> "String"]
      [] s = <<"C", "h", "a", "r">> -> [ok |-> TRUE, type |-> "Char"]
      [] s = <<"B", "o", "o", "l">> -> [ok |-> TRUE, type |-> "Bool"]
      [] s = <<"V", "o", "i", "d">> -> [ok |-> TRUE, type |-> "Void"]
      [] OTHER -> [ok |-> FALSE, type |-> "Unknown"]

isTypeToken(t) ==
    t \in {"IntType", "FloatType", "CharType", "BoolType", "StringType", "VoidType"}

\* r, and if it did not throw, what K does with it
Then(r, K(_)) == Bind(r, LAMBDA x : IF x.ok THEN K(x) ELSE x)

\* Parser::advance(): current = lexer.nextToken()
Parser_advance(P) ==
    Bind(nextToken(P.L),
         LAMBDA r : IF r.ok THEN Ok([L |-> r.L, current |-> r.tok], Null)
                    ELSE Fail([L |-> r.L, current |-> P.current], r.err))

check(P, type) == P.current.type = type

\* Parser::match(type)
Parser_match(P, type) ==
    IF check(P, type) THEN Parser_advance(P)
    ELSE [Ok(P, Null) EXCEPT !.m = FALSE]

\* expect() that goes on after a token it did not find
expect_goesOn(P, type, msg) == Parser_match(P, type)

expect(P, type, msg) ==
    Then(Parser_match(P, type),
         LAMBDA r : IF ~r.m THEN Fail(P, runtime_error(<<"Expected ">> \o msg)) ELSE r)

\* a type position: isTypeToken(current.type) or throw what, stringToVarType
\* of the lexeme, advance(); node is the VarType
typeName(P, what) ==
    IF ~isTypeToken(P.current.type) THEN Fail(P, runtime_error(<<what>>))
    ELSE IF ~stringToVarType(P.current.lexeme).ok
         THEN Fail(P, runtime_error(<<"Unknown type: ", P.current.lexeme>>))
    ELSE Then(Parser_advance(P),
              LAMBDA a : Ok(a.P, stringToVarType(P.current.lexeme).type))

\* std::stoll on a run of digits
RECURSIVE stoll(_)
stoll(text) ==
    IF text = <<>> THEN 0
    ELSE 10 * stoll(SubSeq(text, 1, Len(text) - 1))
         + (CHOOSE d \in 0..9 : ToString(d) = text[Len(text)])

RECURSIVE pow10(_)
pow10(n) == IF n = 0 THEN 1 ELSE 10 * pow10(n - 1)

pointOf(text) == CHOOSE i \in 1..Len(text) : text[i] = "."

\* std::stof on digits, point, digits: the value as numerator and denominator
stof(text) ==
    [num |-> stoll(SubSeq(text, 1, pointOf(text) - 1)
                   \o SubSeq(text, pointOf(text) + 1, Len(text))),
     den |-> pow10(Len(text) - pointOf(text))]

\* the parameter list's do-while loop; node is the list of <<name, type>>
RECURSIVE parseParams(_, _)
parseParams(P, params) ==
    IF ~check(P, "Identifier") THEN Fail(P, runtime_error(<<"Expected parameter name">>))
    ELSE
      Then(Parser_advance(P), LAMBDA a :
      Then(expect(a.P, "Colon", Tick(":")), LAMBDA e :
      Then(typeName(e.P, "Expected parameter type"), LAMBDA t :
      Then(Parser_match(t.P, "Comma"), LAMBDA c :
        IF c.m THEN parseParams(c.P, Append(params, <<P.current.lexeme, t.node>>))
        ELSE Ok(c.P, Append(params, <<P.current.lexeme, t.node>>))))))

\* a member function calling another: Call(fn, P) is fn(P)
RECURSIVE Call(_, _), parseBlockLoop(_, _), parseEqualityLoop(_, _),
          parseComparisonLoop(_, _), parseTermLoop(_, _), parseFactorLoop(_, _),
          parseArgs(_, _)

\* the argument list's do-while loop; node is the list of arguments
parseArgs(P, args) ==
    Then(Call("parseExpression", P), LAMBDA x :
    Then(Parser_match(x.P, "Comma"), LAMBDA c :
      IF c.m THEN parseArgs(c.P, Append(args, x.node))
      ELSE Ok(c.P, Append(args, x.node))))

parseCallOrVar(P) ==
    Then(Parser_advance(P), LAMBDA a :
    Then(Parser_match(a.P, "LParen"), LAMBDA l :
      IF ~l.m THEN Ok(l.P, VarExpr(P.current.lexeme))
      ELSE Then(IF ~check(l.P, "RParen") THEN parseArgs(l.P, <<>>) ELSE Ok(l.P, <<>>),
           LAMBDA args :
           Then(expect(args.P, "RParen", Tick(")")), LAMBDA r :
             Ok(r.P, CallExpr(P.current.lexeme, args.node))))))

\* a literal: take the lexeme, advance(), build the node
literal(P, node) == Then(Parser_advance(P), LAMBDA a : Ok(a.P, node))

parsePrimary(P) ==
    IF check(P, "Integer") THEN literal(P, IntExpr(stoll(P.current.lexeme)))
    ELSE IF check(P, "Float") THEN literal(P, DoubleExpr(stof(P.current.lexeme)))
    ELSE IF check(P, "String") THEN literal(P, StringExpr(P.current.lexeme))
    ELSE IF check(P, "Char")
         THEN Then(Parser_advance(P), LAMBDA a :
                IF P.current.lexeme = <<>>
                THEN Fail(a.P, runtime_error(<<"Empty char literal">>))
                ELSE Ok(a.P, CharExpr(P.current.lexeme[1])))
    ELSE IF check(P, "Bool")
         THEN literal(P, BoolExpr(P.current.lexeme = <<"t", "r", "u", "e">>))
    ELSE IF check(P, "Identifier") THEN parseCallOrVar(P)
    ELSE IF check(P, "LParen")
         THEN Then(Parser_advance(P), LAMBDA l :
              Then(Call("parseExpression", l.P), LAMBDA x :
              Then(expect(x.P, "RParen", Tick(")")), LAMBDA r : Ok(r.P, x.node))))
    ELSE IF check(P, "VoidType") THEN literal(P, VoidExpr)
    ELSE Fail(P, runtime_error(<<"Unexpected token in expression">>))

\* the operator symbol parseTerm() and parseFactor() record: current.lexeme,
\* read once match() has advanced past the operator token
operatorSymbol(afterMatch) == afterMatch.current.lexeme

\* match(a) || match(b)
matchEither(P, a, b) ==
    Then(Parser_match(P, a), LAMBDA m : IF m.m THEN m ELSE Parser_match(P, b))

parseFactorLoop(P, expr) ==
    Then(matchEither(P, "Star", "Slash"), LAMBDA m :
      IF ~m.m THEN Ok(m.P, expr)
      ELSE Then(Call("parsePrimary", m.P), LAMBDA right :
             parseFactorLoop(right.P, BinaryExpr(operatorSymbol(m.P), expr, right.node))))

parseFactor(P) ==
    Then(Call("parsePrimary", P), LAMBDA expr : parseFactorLoop(expr.P, expr.node))

\* parseTerm()'s loop parsing the rest of the chain as the right operand
parseTermLoop_rightNested(P, expr) ==
    Then(matchEither(P, "Plus", "Minus"), LAMBDA m :
      IF ~m.m THEN Ok(m.P, expr)
      ELSE Then(Call("parseTerm", m.P), LAMBDA right :
             Ok(right.P, BinaryExpr(operatorSymbol(m.P), expr, right.node))))

parseTermLoop(P, expr) ==
    Then(matchEither(P, "Plus", "Minus"), LAMBDA m :
      IF ~m.m THEN Ok(m.P, expr)
      ELSE Then(Call("parseFactor", m.P), LAMBDA right :
             parseTermLoop(right.P, BinaryExpr(operatorSymbol(m.P), expr, right.node))))

parseTerm(P) ==
    Then(Call("parseFactor", P), LAMBDA expr : parseTermLoop(expr.P, expr.node))

parseComparisonLoop(P, expr) ==
    Then(Parser_match(P, "Leq"), LAMBDA m :
      IF ~m.m THEN Ok(m.P, expr)
      ELSE Then(Call("parseTerm", m.P), LAMBDA right :
             parseComparisonLoop(right.P, BinaryExpr(<<"<", "=">>, expr, right.node))))

parseComparison(P) ==
    Then(Call("parseTerm", P), LAMBDA expr : parseComparisonLoop(expr.P, expr.node))

parseEqualityLoop(P, expr) ==
    Then(Parser_match(P, "Eq"), LAMBDA m :
      IF ~m.m THEN Ok(m.P, expr)
      ELSE Then(Call("parseComparison", m.P), LAMBDA right :
             parseEqualityLoop(right.P, BinaryExpr(<<"=">>, expr, right.node))))

parseEquality(P) ==
    Then(Call("parseComparison", P), LAMBDA expr : parseEqualityLoop(expr.P, expr.node))

parseExpression(P) == parseEquality(P)

parseReturnStmt(P) ==
    Then(Call("parseExpression", P), LAMBDA value : Ok(value.P, ReturnStmt(value.node)))

parseIfStmt(P) ==
    Then(Call("parseExpression", P), LAMBDA cond :
    Then(Call("parseBlock", cond.P), LAMBDA thenBranch :
    Then(Parser_match(thenBranch.P, "Else"), LAMBDA e :
      IF ~e.m THEN Ok(e.P, IfStmt(cond.node, thenBranch.node, <<>>))
      ELSE Then(Call("parseBlock", e.P), LAMBDA elseBranch :
             Ok(elseBranch.P, IfStmt(cond.node, thenBranch.node, elseBranch.node))))))

parseLetDecl(P) ==
    IF ~check(P, "Identifier") THEN Fail(P, runtime_error(<<"Expected variable name">>))
    ELSE
      Then(Parser_advance(P), LAMBDA a :
      Then(expect(a.P, "Colon", Tick(":")), LAMBDA c :
      Then(typeName(c.P, "Expected type name"), LAMBDA t :
      Then(Parser_match(t.P, "Eq"), LAMBDA e :
        IF ~e.m THEN Ok(e.P, LetDecl(P.current.lexeme, t.node, Null))
        ELSE Then(Call("parseExpression", e.P), LAMBDA init :
               Ok(init.P, LetDecl(P.current.lexeme, t.node, init.node)))))))

\* parseStatement() with the semicolon demanded after every statement
statementEnd_alwaysSemi(stmt) ==
    Then(stmt, LAMBDA st :
    Then(expect(st.P, "Semi", Tick(";") \o <<" after statement">>), LAMBDA s :
      Ok(s.P, st.node)))

\* the end of parseStatement(): stmt is what the statement's own parser returned
statementEnd(stmt) ==
    Then(stmt, LAMBDA st :
      IF ~check(st.P, "RBrace")
      THEN Then(expect(st.P, "Semi", Tick(";") \o <<" after statement">>), LAMBDA s :
             Ok(s.P, st.node))
      ELSE Ok(st.P, st.node))

parseStatement(P) ==
    statementEnd(
      Then(Parser_match(P, "Let"), LAMBDA l :
        IF l.m THEN parseLetDecl(l.P)
        ELSE Then(Parser_match(P, "If"), LAMBDA i :
          IF i.m THEN parseIfStmt(i.P)
          ELSE Then(Parser_match(P, "Return"), LAMBDA r :
            IF r.m THEN parseReturnStmt(r.P)
            ELSE Call("parseExpression", P)))))

parseBlockLoop(P, stmts) ==
    IF ~check(P, "RBrace") /\ ~check(P, "Eof")
    THEN Then(Call("parseStatement", P), LAMBDA s : parseBlockLoop(s.P, Append(stmts, s.node)))
    ELSE Ok(P, stmts)

\* parseBlock(): node is the list of statements
parseBlock(P) ==
    Then(expect(P, "LBrace", Tick("{")), LAMBDA l :
    Then(parseBlockLoop(l.P, <<>>), LAMBDA stmts :
    Then(expect(stmts.P, "RBrace", Tick("}")), LAMBDA r : Ok(r.P, stmts.node))))

Call(fn, P) ==
    CASE fn = "parseBlock" -> parseBlock(P)
      [] fn = "parseStatement" -> parseStatement(P)
      [] fn = "parseExpression" -> parseExpression(P)
      [] fn = "parseComparison" -> parseComparison(P)
      [] fn = "parseTerm" -> parseTerm(P)
      [] fn = "parseFactor" -> parseFactor(P)
      [] fn = "parsePrimary" -> parsePrimary(P)

parseFunction(P) ==
    Then(expect(P, "Fn", Tick("fn")), LAMBDA f :
      IF ~check(f.P, "Identifier")
      THEN Fail(f.P, runtime_error(<<"Expected function name">>))
      ELSE
        Then(Parser_advance(f.P), LAMBDA a :
        Then(expect(a.P, "LParen", Tick("(")), LAMBDA l :
        Then(IF ~check(l.P, "RParen") THEN parseParams(l.P, <<>>) ELSE Ok(l.P, <<>>),
             LAMBDA params :
        Then(expect(params.P, "RParen", Tick(")")), LAMBDA r :
        Then(expect(r.P, "Arrow", Tick("->")), LAMBDA arrow :
        Then(typeName(arrow.P, "Expected return type"), LAMBDA returnType :
        Then(Call("parseBlock", returnType.P), LAMBDA stmts :
          Ok(stmts.P, Function(f.P.current.lexeme, returnType.node, params.node,
                               BlockStmt(stmts.node)))))))))))

RECURSIVE parseProgramLoop(_, _)
parseProgramLoop(P, functions) ==
    IF ~check(P, "Eof")
    THEN Then(parseFunction(P), LAMBDA f : parseProgramLoop(f.P, Append(functions, f.node)))
    ELSE Ok(P, Program(functions))

parseProgram(P) == parseProgramLoop(P, <<>>)

----------------------------------------------------------------------------
(* Source buffers the drivers enumerate *)

SeqsUpTo(A, n) == UNION {[1..k -> A] : k \in 0..n}

AlphaString == {QUOTE, BACKSLASH, "n", "a", NL}
AlphaNumber == {"1", "2", ".", "+"}
AlphaLayout == {TAB, NL, "@", "a"}
AlphaComment == {"/", "*", NL, "a"}
AlphaChar == {"'", "a", "b"}
AlphaNul == {"/", "*", NUL}      \* a buffer may hold the character '\0'
AlphaArrow == {"-", ">", "=", "+"}
AlphaOperator == {"*", "/", "=", "!", "<"}

LexSources ==
    UNION {SeqsUpTo(A, MaxLen) :
             A \in {AlphaString, AlphaNumber, AlphaLayout, AlphaComment, AlphaChar,
                    AlphaNul, AlphaArrow, AlphaOperator}}

AdvanceSources == SeqsUpTo(AlphaLayout, MaxLen)

\* words joined by single spaces
RECURSIVE Join(_)
Join(ws) ==
    IF ws = <<>> THEN <<>>
    ELSE IF Len(ws) = 1 THEN ws[1]
    ELSE ws[1] \o <<SPACE>> \o Join(Tail(ws))

kw_fn == <<"f", "n">>
kw_return == <<"r", "e", "t", "u", "r", "n">>
kw_if == <<"i", "f">>
kw_let == <<"l", "e", "t">>

TypeNames ==
    {<<"I", "n", "t">>, <<"F", "l", "o", "a", "t">>, <<"S", "t", "r", "i", "n", "g">>,
     <<"C", "h", "a", "r">>, <<"B", "o", "o", "l">>, <<"V", "o", "i", "d">>}

FunctionNames == {<<"i", "d">>, <<"f">>}
ParamNames == {<<"x">>, <<"y", "2">>}

\* fn NAME(P: T) -> R { return P; }
FunctionSource(name, p, t, r) ==
    Join(<<kw_fn, name \o <<"(">> \o p \o <<":">>, t \o <<")">>, <<"-", ">">>, r,
           <<"{">>, kw_return, p \o <<";">>, <<"}">>>>)

FunctionSources ==
    {FunctionSource(name, p, t, r) :
        name \in FunctionNames, p \in ParamNames, t \in TypeNames, r \in TypeNames}

\* program texts of a few words: tokens, an illegal character, comments
ProgramWords ==
    {kw_fn, <<"f">>, <<"(">>, <<")">>, <<"{">>, <<"@">>,
     <<"/", "*", "*", "/">>, <<"/", "/", "c", NL>>}

WordSources == {Join(ws) : ws \in SeqsUpTo(ProgramWords, MaxWords)}

\* a function text cut short anywhere, and then an illegal character or not
Prefixes(text) ==
    {SubSeq(text, 1, k) \o t : k \in 0..Len(text), t \in {<<>>, <<"@">>}}

PrefixSources ==
    Prefixes(FunctionSource(<<"f">>, <<"x">>, <<"I", "n", "t">>, <<"I", "n", "t">>))
    \cup Prefixes(Join(<<kw_fn, <<"f", "(", ")">>, <<"-", ">">>, <<"I", "n", "t">>,
                         <<"{">>, <<"}">>>>))

\* comments with a NUL byte in them, alone, and before or after a token
NulComments ==
    {<<"/", "/", NUL>>, <<"/", "/", NUL, NL>>, <<"/", "*", NUL, "*", "/">>}

NulSources ==
    {a \o c \o b : a \in {<<>>, kw_fn, <<" ">>}, b \in {<<>>, kw_fn, <<" ">>},
                   c \in NulComments}

ProgramSources == FunctionSources \cup WordSources \cup PrefixSources \cup NulSources

\* expressions: operands and binary operators in turn
Operands == {<<"1">>, <<"2">>, <<"3">>}
Operators == {<<"+">>, <<"-">>, <<"*">>, <<"/">>}

RECURSIVE Chains(_)
Chains(n) ==
    IF n = 1 THEN {<<a>> : a \in Operands}
    ELSE {ws \o <<op, a>> : ws \in Chains(n - 1), op \in Operators, a \in Operands}

ExpressionSources == {Join(ws) : ws \in UNION {Chains(n) : n \in 1..MaxOperands}}

\* the words true and false, alone and as a left operand
BoolWords == {<<"t", "r", "u", "e">>, <<"f", "a", "l", "s", "e">>}

BoolSources == BoolWords \cup {Join(<<w, <<"+">>, <<"1">>>>) : w \in BoolWords}

\* chains of the operators of one tier
Tiers == {{<<"=">>}, {<<"<", "=">>}, {<<"+">>, <<"-">>}, {<<"*">>, <<"/">>}}

RECURSIVE ChainsOver(_, _)
ChainsOver(ops, n) ==
    IF n = 1 THEN {<<a>> : a \in Operands}
    ELSE {ws \o <<op, a>> : ws \in ChainsOver(ops, n - 1), op \in ops, a \in Operands}

TierChains == UNION {ChainsOver(ops, n) : ops \in Tiers, n \in 2..MaxOperands}

TierSources == {Join(ws) : ws \in TierChains}

\* statements: a statement's own text, then what follows it
Bodies ==
    {[words |-> <<kw_return, <<"x">>>>, node |-> ReturnStmt(VarExpr(<<"x">>))],
     [words |-> <<<<"x">>>>, node |-> VarExpr(<<"x">>)],
     [words |-> <<kw_if, <<"x">>, <<"{">>, <<"}">>>>,
      node |-> IfStmt(VarExpr(<<"x">>), <<>>, <<>>)],
     [words |-> <<<<"f", "(", "1", ")">>>>,
      node |-> CallExpr(<<"f">>, <<IntExpr(1)>>)]}

TailWords == {<<";">>, <<"}">>, <<"y">>, <<"@">>, kw_return}

Tails == SeqsUpTo(TailWords, MaxTail)

StatementSources == {Join(b.words \o t) : b \in Bodies, t \in Tails}

----------------------------------------------------------------------------
(* The drivers *)

LexerState == [pos |-> pos, line |-> line, col |-> col]

\* Lexer::Lexer(src): pos(0), line(1), col(1)
NewLexer(h, S, e) ==
    /\ harness = h
    /\ source \in S
    /\ pos = 0 /\ line = 1 /\ col = 1
    /\ current = NoToken
    /\ entry = e
    /\ pc = "start"
    /\ status = "ok"
    /\ err = NoError
    /\ lastOp = "none" /\ lastTok = NoToken
    /\ prevOp = "none" /\ prevTok = NoToken
    /\ before = [pos |-> 0, line |-> 1, col |-> 1]
    /\ ast = Null

\* the driver called op on the lexer and got r
LexerCall(op, r) ==
    /\ pos' = r.L.pos /\ line' = r.L.line /\ col' = r.L.col
    /\ status' = IF r.ok THEN "ok" ELSE "raised"
    /\ err' = r.err
    /\ lastOp' = op /\ lastTok' = r.tok
    /\ prevOp' = lastOp /\ prevTok' = lastTok
    /\ before' = LexerState

\* a caller pulls the next token
NextToken ==
    /\ harness = "lexer" /\ status = "ok"
    /\ LexerCall("nextToken", nextToken(LexerState))
    /\ UNCHANGED <<source, current, harness, entry, pc, ast>>

\* a caller looks at the next token
PeekToken ==
    /\ harness = "lexer" /\ status = "ok"
    /\ LexerCall("peekToken", peekToken(LexerState))
    /\ UNCHANGED <<source, current, harness, entry, pc, ast>>

Init == NewLexer("lexer", LexSources, "none")

Next == NextToken \/ PeekToken

Spec == Init /\ [][Next]_vars

(* The character-level driver: advance() one character at a time, as       *)
(* nextToken() runs it over leading whitespace and then over the character *)
(* it dispatches on; an illegal character then reaches the throw at the    *)
(* end of nextToken().                                                     *)

Advance ==
    /\ harness = "advance" /\ status = "ok"
    /\ pos < length
    /\ LexerCall("advance", Return(advance(LexerState).L, NoToken))
    /\ UNCHANGED <<source, current, harness, entry, pc, ast>>

Dispatched(c) ==
    \/ c \in {"(", ")", "{", "}", ",", ":", ";", "+", "-", "*", "/", "=", "!", "<", ">", QUOTE}
    \/ isalpha(c) \/ c = "_" \/ isdigit(c)

UnexpectedCharacter ==
    /\ harness = "advance" /\ status = "ok"
    /\ lastOp = "advance"
    /\ \A i \in 0..(pos - 2) : isspace(At(i))
    /\ ~isspace(At(pos - 1)) /\ ~Dispatched(At(pos - 1))
    /\ LexerCall("nextToken",
                 Throw(LexerState, error(LexerState, <<"Unexpected character: ", At(pos - 1)>>)))
    /\ UNCHANGED <<source, current, harness, entry, pc, ast>>

InitAdvance == NewLexer("advance", AdvanceSources, "none")

NextAdvance == Advance \/ UnexpectedCharacter

SpecAdvance == InitAdvance /\ [][NextAdvance]_vars

(* The parser drivers: main() builds a Parser over the Lexer and calls     *)
(* parseProgram(); the unit driver builds the Parser and calls one member  *)
(* function, parseStatement() or parseExpression(), on the buffer.         *)

ParserState == [L |-> LexerState, current |-> current]

\* the driver called op on the parser and got r
ParserCall(op, r) ==
    /\ pos' = r.P.L.pos /\ line' = r.P.L.line /\ col' = r.P.L.col
    /\ current' = r.P.current
    /\ status' = IF r.ok THEN "ok" ELSE "raised"
    /\ err' = r.err
    /\ ast' = r.node
    /\ lastOp' = op /\ lastTok' = r.P.current
    /\ prevOp' = lastOp /\ prevTok' = lastTok
    /\ before' = LexerState

\* Parser::Parser(lex): advance()
Construct ==
    /\ harness \in {"program", "unit"} /\ pc = "start"
    /\ ParserCall("Parser", Parser_advance(ParserState))
    /\ pc' = "constructed"
    /\ UNCHANGED <<source, harness, entry>>

ParseProgram ==
    /\ harness = "program" /\ pc = "constructed" /\ status = "ok"
    /\ ParserCall("parseProgram", parseProgram(ParserState))
    /\ pc' = "done"
    /\ UNCHANGED <<source, harness, entry>>

ParseStatement ==
    /\ harness = "unit" /\ entry = "parseStatement"
    /\ pc = "constructed" /\ status = "ok"
    /\ ParserCall("parseStatement", Call("parseStatement", ParserState))
    /\ pc' = "done"
    /\ UNCHANGED <<source, harness, entry>>

ParseExpression ==
    /\ harness = "unit" /\ entry = "parseExpression"
    /\ pc = "constructed" /\ status = "ok"
    /\ ParserCall("parseExpression", Call("parseExpression", ParserState))
    /\ pc' = "done"
    /\ UNCHANGED <<source, harness, entry>>

InitParse == NewLexer("program", ProgramSources, "parseProgram")

NextParse == Construct \/ ParseProgram

SpecParse == InitParse /\ [][NextParse]_vars

InitUnit ==
    \/ NewLexer("unit", StatementSources, "parseStatement")
    \/ NewLexer("unit", ExpressionSources \cup BoolSources \cup TierSources,
                "parseExpression")

NextUnit == Construct \/ ParseStatement \/ ParseExpression

SpecUnit == InitUnit /\ [][NextUnit]_vars

(* Every driver, each running to its end: a driver that can take its next *)
(* step takes it.                                                          *)

InitRun == Init \/ InitParse \/ InitUnit

NextRun == Next \/ NextParse \/ ParseStatement \/ ParseExpression

SpecRun ==
    /\ InitRun /\ [][NextRun]_vars
    /\ WF_vars(Construct) /\ WF_vars(ParseProgram)
    /\ WF_vars(ParseStatement) /\ WF_vars(ParseExpression)

----------------------------------------------------------------------------
(* Properties of the parser *)

Called(op) == lastOp = op

\* C1: for every source fn NAME(P: T) -> R { return P; } with T and R among
\* Int, Float, String, Char, Bool, Void, parseProgram() returns, and returns a
\* Program of exactly one Function named NAME with the parameter list
\* [(P, T)], the return type R and a body of exactly one Return(Variable(P)).
C1_FunctionIsAccepted ==
    Called("parseProgram") =>
      \A name \in FunctionNames, p \in ParamNames, t \in TypeNames, r \in TypeNames :
        source = FunctionSource(name, p, t, r) =>
          /\ status = "ok"
          /\ ast = Program(<<Function(name, stringToVarType(r).type,
                                       <<<<p, stringToVarType(t).type>>>>,
                                       BlockStmt(<<ReturnStmt(VarExpr(p))>>))>>)

\* the tree of a chain of operands and operators, the operator at ws[i]:
\* * and / bind tighter than + and -, all associate to the left, and each
\* node records the operator token between its operands
Operand(w) == IntExpr(stoll(w))

RECURSIVE FactorChain(_, _, _)
FactorChain(ws, i, left) ==
    IF i <= Len(ws) /\ ws[i] \in {<<"*">>, <<"/">>}
    THEN FactorChain(ws, i + 2, BinaryExpr(ws[i], left, Operand(ws[i + 1])))
    ELSE [node |-> left, next |-> i]

RECURSIVE TermChain(_, _, _)
TermChain(ws, i, left) ==
    IF i <= Len(ws)
    THEN TermChain(ws, FactorChain(ws, i + 2, Operand(ws[i + 1])).next,
                   BinaryExpr(ws[i], left,
                              FactorChain(ws, i + 2, Operand(ws[i + 1])).node))
    ELSE left

ExpressionTree(ws) ==
    TermChain(ws, FactorChain(ws, 2, Operand(ws[1])).next,
              FactorChain(ws, 2, Operand(ws[1])).node)

AllChains == UNION {Chains(n) : n \in 1..MaxOperands}

\* C2: parseExpression() on a chain of integers joined by +, -, * and /
\* returns the tree in which * and / bind tighter than + and -, each BinaryOp
\* recording the text of the operator token matched between its operands; so
\* 1 + 2 * 3 gives BinaryOp("+", Int(1), BinaryOp("*", Int(2), Int(3))).
C2_OperatorIsTheMatchedToken ==
    Called("parseExpression") =>
      \A ws \in AllChains :
        source = Join(ws) => (status = "ok" /\ ast = ExpressionTree(ws))

\* the buffer is the statement b followed by the words t
StatementThen(b, t) == source = Join(b.words \o t)

MissingSemi == runtime_error(<<"Expected ">> \o Tick(";") \o <<" after statement">>)

\* the lexer stands right after the first n words of t
LexedUpTo(b, t, n) == pos = Len(Join(b.words \o SubSeq(t, 1, n)))

\* the kind of the token a tail word is
WordType(w) ==
    CASE w = <<";">> -> "Semi"
      [] w = <<"}">> -> "RBrace"
      [] w = kw_return -> "Return"
      [] OTHER -> "Identifier"

\* C3: once parseStatement() has parsed the statement (return, if or
\* expression), a current token RBrace is left where it is and the statement
\* is returned; a current token Semi is consumed, it alone, and the statement
\* is returned; with any other current token, Eof and the first token of a
\* following statement included, parseStatement() throws
\* "Expected ; after statement" (the semicolon between grave accents).
C3_SemiUnlessRBrace ==
    Called("parseStatement") =>
      \A b \in Bodies, t \in Tails :
        StatementThen(b, t) =>
          IF t = <<>> THEN status = "raised" /\ err = MissingSemi
          ELSE IF t[1] = <<"}">>
               THEN /\ status = "ok" /\ ast = b.node
                    /\ current.type = "RBrace" /\ LexedUpTo(b, t, 1)
          ELSE IF t[1] = <<";">> /\ Len(t) = 1
               THEN /\ status = "ok" /\ ast = b.node
                    /\ current.type = "Eof" /\ LexedUpTo(b, t, 1)
          ELSE IF t[1] = <<";">> /\ t[2] # <<"@">>
               THEN /\ status = "ok" /\ ast = b.node
                    /\ current.type = WordType(t[2]) /\ current.lexeme = t[2]
                    /\ LexedUpTo(b, t, 2)
          ELSE IF t[1] \in {<<"y">>, kw_return}
               THEN status = "raised" /\ err = MissingSemi
          ELSE status = "raised" /\ err.kind = "LexerError"

\* C3 witness: an if statement right before the closing brace came back
\* from parseStatement() with the brace still the current token
C3_Witness ==
    /\ Called("parseStatement") /\ status = "ok"
    /\ ast.kind = "If" /\ current.type = "RBrace"
    /\ \E b \in Bodies : StatementThen(b, <<<<"}">>, <<";">>>>) /\ LexedUpTo(b, <<<<"}">>>>, 1)

----------------------------------------------------------------------------
(* Properties of the lexer *)

StartedAt(c) == before.pos < length /\ At(before.pos) = c

\* C4: peekToken() is pure lookahead.  After a peekToken() that returned, pos,
\* line and col are what they were before the call; the call that follows a
\* peekToken(), be it nextToken() or another peekToken(), returns the very
\* token that was peeked (kind, lexeme, line, column).
C4_PeekTokenIsPureLookahead ==
    /\ (Called("peekToken") /\ status = "ok") => LexerState = before
    /\ (prevOp = "peekToken" /\ lastOp \in {"nextToken", "peekToken"})
          => (status = "ok" /\ lastTok = prevTok)

\* C4 witness: a nextToken() that followed a peekToken() in mid-buffer and
\* consumed a token
C4_Witness ==
    /\ prevOp = "peekToken" /\ Called("nextToken")
    /\ before.pos > 0 /\ pos > before.pos
    /\ lastTok.type = "Identifier"

\* what a string literal whose content starts at index i denotes
RECURSIVE LiteralFrom(_, _)
LiteralFrom(i, value) ==
    IF i >= length THEN [closed |-> FALSE, value |-> value, end |-> i]
    ELSE IF At(i) = QUOTE THEN [closed |-> TRUE, value |-> value, end |-> i + 1]
    ELSE IF At(i) = BACKSLASH
         THEN IF i + 1 < length /\ At(i + 1) \in {"n", "t", BACKSLASH, QUOTE}
              THEN LiteralFrom(i + 2,
                     Append(value, CASE At(i + 1) = "n" -> NL
                                     [] At(i + 1) = "t" -> TAB
                                     [] OTHER -> At(i + 1)))
              ELSE [closed |-> FALSE, value |-> value, end |-> i]
    ELSE LiteralFrom(i + 1, Append(value, At(i)))

\* C5: a nextToken() that starts at the opening quote of a string literal
\* returns one String token whose lexeme is the characters between the quotes,
\* escapes decoded, and leaves pos just after the closing quote; a bad escape
\* or a missing closing quote raises a LexerError.
C5_StringLexemeIsTheContent ==
    (Called("nextToken") /\ StartedAt(QUOTE)) =>
        LET lit == LiteralFrom(before.pos + 1, <<>>)
        IN IF lit.closed
           THEN /\ status = "ok"
                /\ lastTok.type = "String"
                /\ lastTok.lexeme = lit.value
                /\ pos = lit.end
           ELSE status = "raised" /\ err.kind = "LexerError"

\* C6: a nextToken() that starts at 'x' returns one Char token carrying x, and
\* one that starts at '' raises the LexerError "Empty char literal".
C6_CharLiteral ==
    (Called("nextToken") /\ StartedAt("'")) =>
        /\ (/\ before.pos + 2 < length
            /\ At(before.pos + 1) # "'"
            /\ At(before.pos + 2) = "'")
              => (/\ status = "ok"
                  /\ lastTok.type = "Char"
                  /\ lastTok.lexeme = <<At(before.pos + 1)>>)
        /\ (before.pos + 1 < length /\ At(before.pos + 1) = "'")
              => (/\ status = "raised"
                  /\ err.kind = "LexerError"
                  /\ err.message = <<"Empty char literal">>)

\* the first index from i on that holds no digit
RECURSIVE DigitsEnd(_)
DigitsEnd(i) == IF i < length /\ At(i) \in Digits THEN DigitsEnd(i + 1) ELSE i

\* a nextToken() that starts at a digit: a Float over digits, point and digits
\* when a digit follows the point, else an Integer over the digits with the
\* following character left unconsumed
NumberTokenAsSpecified ==
    (Called("nextToken") /\ before.pos < length /\ At(before.pos) \in Digits) =>
        LET d == DigitsEnd(before.pos)
            float == d + 1 < length /\ At(d) = "." /\ At(d + 1) \in Digits
            end == IF float THEN DigitsEnd(d + 1) ELSE d
        IN /\ status = "ok"
           /\ lastTok.type = (IF float THEN "Float" ELSE "Integer")
           /\ lastTok.lexeme = substr(before.pos, end - before.pos)
           /\ pos = end

\* the call that starts at the point an Integer token left behind
AtPointAfterDigits ==
    /\ lastOp \in {"nextToken", "peekToken"}
    /\ StartedAt(".")
    /\ before.pos > 0 /\ At(before.pos - 1) \in Digits

\* C7 as claimed: digits and a point with no digit after it give an Integer and
\* leave the point, which the lexer then hands out as a token of another kind
\* (no LexerError); digits, point, digits give one Float.
C7_PointIsATokenOfItsOwn ==
    /\ NumberTokenAsSpecified
    /\ AtPointAfterDigits =>
          (status = "ok" /\ lastTok.type \notin {"None", "Integer", "Float", "Eof"})

\* C7 amended: digits and a point with no digit after it give an Integer and
\* leave the point; the next call then raises the LexerError
\* "Unexpected character: ." (no token kind exists for the point); digits,
\* point, digits give one Float.
C7_PointRaisesLexerError ==
    /\ NumberTokenAsSpecified
    /\ AtPointAfterDigits =>
          (/\ status = "raised"
           /\ err.kind = "LexerError"
           /\ err.message = <<"Unexpected character: ", ".">>)

\* C7 witness: the Integer was returned, and the nextToken() after it raised at
\* the point
C7_Witness ==
    /\ Called("nextToken") /\ prevOp = "nextToken" /\ prevTok.type = "Integer"
    /\ AtPointAfterDigits
    /\ status = "raised"

\* the 1-based columns at which a tab can end
TabStops == {4 * k + 1 : k \in 1..(MaxLen + 2)}

NextTabStop(c) == CHOOSE s \in TabStops : s > c /\ \A t \in TabStops : t > c => s <= t

\* the illegal character just consumed directly follows one leading tab
AfterOneLeadingTab ==
    /\ pos >= 2 /\ At(pos - 2) = TAB
    /\ pos = 2 \/ At(pos - 3) = NL

\* C8: consuming a tab moves the column to the next 4-column tab stop, any
\* other character but a newline adds 1, a newline resets it to 1; the
\* LexerError for an illegal character right after one leading tab reports
\* column 5.
C8_TabAdvancesToNextStop ==
    /\ Called("advance") =>
          col = (CASE At(before.pos) = TAB -> NextTabStop(before.col)
                   [] At(before.pos) = NL -> 1
                   [] OTHER -> before.col + 1)
    /\ (status = "raised" /\ AfterOneLeadingTab) => err.col = 5

\* C8 witness: on the second line, an illegal character after one leading tab
\* has raised
C8_Witness ==
    /\ status = "raised" /\ AfterOneLeadingTab
    /\ line = 2
    /\ prevOp = "advance"

\* the index at which line n (1-based) starts, searching from i
RECURSIVE LineStartFrom(_, _)
LineStartFrom(n, i) ==
    IF n <= 1 \/ i >= length THEN i
    ELSE LineStartFrom(IF At(i) = NL THEN n - 1 ELSE n, i + 1)

RECURSIVE LineEndFrom(_)
LineEndFrom(i) == IF i < length /\ At(i) # NL THEN LineEndFrom(i + 1) ELSE i

\* the complete text of line n, without its newline
LineText(n) ==
    LET s == LineStartFrom(n, 0) IN substr(s, LineEndFrom(s) - s)

\* C9: the source-line text a LexerError carries is the complete text of the
\* line whose number the error reports.
C9_ErrorCarriesItsLine ==
    (status = "raised" /\ err.kind = "LexerError") => err.sourceLine = LineText(err.line)

\* text with every tab replaced by spaces up to the next 4-column stop
RECURSIVE TabStopExpand(_, _)
TabStopExpand(text, done) ==
    IF text = <<>> THEN done
    ELSE TabStopExpand(Tail(text),
            IF Head(text) = TAB
            THEN done \o [k \in 1..(4 - (Len(done) % 4)) |-> SPACE]
            ELSE Append(done, Head(text)))

\* C10: the displayed line is the raw line with tabs expanded to 4-column
\* stops, and the caret line is k spaces and a caret, k being the offset in the
\* displayed line of the character at the reported (1-based, tab-expanded)
\* column, which is col - 1.
C10_CaretUnderReportedColumn ==
    (status = "raised" /\ err.kind = "LexerError" /\ err.sourceLine # <<>>) =>
        /\ err.formattedMessage.displayLine = TabStopExpand(err.sourceLine, <<>>)
        /\ err.formattedMessage.caretLine = [k \in 1..(err.col - 1) |-> SPACE] \o <<"^">>

----------------------------------------------------------------------------
(* Properties of a whole parse *)

\* the character at index i, NUL past the end
CharAt(i) == IF i < length THEN At(i) ELSE NUL

\* the index of the first star-slash at or after i, -1 if there is none
RECURSIVE CloserFrom(_)
CloserFrom(i) ==
    IF i + 1 >= length THEN -1
    ELSE IF At(i) = "*" /\ At(i + 1) = "/" THEN i
    ELSE CloserFrom(i + 1)

\* the index of the newline that ends a line comment, or the end of input
RECURSIVE LineCommentEnd(_)
LineCommentEnd(i) == IF i < length /\ At(i) # NL THEN LineCommentEnd(i + 1) ELSE i

\* where the whitespace and comments that start at index i end: the index of
\* the first character of the next token, the length at the end of input,
\* -1 when a block comment is never closed
RECURSIVE LayoutEnd(_)
LayoutEnd(i) ==
    IF i >= length THEN length
    ELSE IF isspace(At(i)) THEN LayoutEnd(i + 1)
    ELSE IF At(i) = "/" /\ CharAt(i + 1) = "/" THEN LayoutEnd(LineCommentEnd(i + 2))
    ELSE IF At(i) = "/" /\ CharAt(i + 1) = "*"
         THEN IF CloserFrom(i + 2) = -1 THEN -1 ELSE LayoutEnd(CloserFrom(i + 2) + 2)
    ELSE i

\* lexing the first token of the buffer fails: a block comment is not
\* closed, the first character of the token starts no token, or a NUL byte
\* stands in the comments before it (peek() reads it as the end of input)
FirstTokenMalformed ==
    \/ LayoutEnd(0) = -1
    \/ LayoutEnd(0) < length /\ ~Dispatched(At(LayoutEnd(0)))
    \/ \E i \in 0..(LayoutEnd(0) - 1) : At(i) = NUL

\* the buffer has a first token, well formed, and it is not the keyword fn
FirstTokenNotFn ==
    /\ ~FirstTokenMalformed /\ LayoutEnd(0) < length
    /\ ~(CharAt(LayoutEnd(0)) = "f" /\ CharAt(LayoutEnd(0) + 1) = "n"
          /\ ~isalnum(CharAt(LayoutEnd(0) + 2)) /\ CharAt(LayoutEnd(0) + 2) # "_")

\* the lexer stands where the failing token left it: right after the
\* parser's current token, or where nextToken() threw
NoTokenAfterFailing ==
    IF err.kind = "LexerError"
    THEN \/ pos = length \/ CharAt(pos) = NUL
         \/ err.message = <<"Unexpected character: ", CharAt(pos - 1)>>
    ELSE \/ current.type = "Eof" /\ pos = length
         \/ /\ current.lexeme # <<>> /\ pos >= Len(current.lexeme)
            /\ substr(pos - Len(current.lexeme), Len(current.lexeme)) = current.lexeme

ExpectedFn == runtime_error(<<"Expected ">> \o Tick("fn"))

\* C11 as stated: whenever lexing or parsing fails, the failure leaves the
\* parseProgram() call itself, also when the malformed text is the first
\* token; no Program is returned and no token after the failing one has been
\* requested.
C11_RaisedByParseProgram ==
    status = "raised" =>
        (Called("parseProgram") /\ ast = Null /\ NoTokenAfterFailing)

\* C11 amended: the first error ends the parse with no Program and with no
\* token requested after the failing one; it leaves the Parser constructor,
\* before parseProgram() is called, when lexing the first token fails, and
\* the parseProgram() call otherwise (a first token other than fn fails at
\* that token with "Expected fn").
C11_RaisedByParserOrParseProgram ==
    /\ status = "raised" =>
          /\ ast = Null /\ NoTokenAfterFailing
          /\ IF FirstTokenMalformed
             THEN Called("Parser") /\ pc = "constructed" /\ err.kind = "LexerError"
             ELSE Called("parseProgram") /\ pc = "done"
    /\ (pc # "start" /\ FirstTokenMalformed) => status = "raised"
    /\ (pc = "done" /\ FirstTokenNotFn) =>
          /\ status = "raised" /\ err = ExpectedFn
          /\ pos = LayoutEnd(0) + Len(current.lexeme)

\* C11 witness: an illegal first character stopped the Parser constructor,
\* with text after it that was never lexed
C11_Witness ==
    /\ status = "raised" /\ Called("Parser") /\ pc = "constructed"
    /\ err.kind = "LexerError" /\ pos = 1 /\ length > 2

\* C12: every failure of the parser itself is a ParseError that carries a
\* message and the line and the 1-based column of the parser's current token
\* at the point of failure.
C12_ParseErrorCarriesPosition ==
    (status = "raised" /\ Called("parseProgram") /\ err.kind # "LexerError") =>
        /\ err.kind = "ParseError" /\ err.message # <<>>
        /\ err.line = current.line /\ err.col = current.col
        /\ err.line >= 1 /\ err.col >= 1

\* the buffer starts with the word w, and the word ends there
StartsWithWord(w) ==
    /\ length >= Len(w) /\ substr(0, Len(w)) = w
    /\ ~isalnum(CharAt(Len(w))) /\ CharAt(Len(w)) # "_"

\* C13: nextToken() gives the words true and false as tokens of kind Bool
\* with the word as lexeme, and in expression position they parse to
\* BoolLiteral(true) and BoolLiteral(false), not to a Variable.
C13_BoolLiteral ==
    \A w \in BoolWords :
        /\ (Called("Parser") /\ StartsWithWord(w)) =>
              (status = "ok" /\ current.type = "Bool" /\ current.lexeme = w)
        /\ (Called("parseExpression") /\ source = w) =>
              (status = "ok" /\ ast = BoolExpr(w = <<"t", "r", "u", "e">>))

----------------------------------------------------------------------------
(* Further properties of the lexer *)

UnterminatedComment == <<"Unterminated block comment">>

\* C15: nextToken() skips whitespace and comments: a line comment runs up to
\* the next newline or the end of input, a block comment up to the first
\* star-slash after its opener; the token returned is the one that starts
\* where they end.  nextToken() raises "Unterminated block comment" when no
\* star-slash follows an opener, and only then.
C15_CommentsAreSkipped ==
    Called("nextToken") =>
        /\ (LayoutEnd(before.pos) = -1)
              <=> (status = "raised" /\ err.message = UnterminatedComment)
        /\ (LayoutEnd(before.pos) # -1 /\ status = "ok") =>
              IF lastTok.type = "Eof"
              THEN LayoutEnd(before.pos) = length /\ pos = length
              ELSE lastTok.type # "String" =>
                     pos - Len(lastTok.lexeme) = LayoutEnd(before.pos)
        /\ (status = "raised" /\ err.message[1] = "Unexpected character: ") =>
              pos = LayoutEnd(before.pos) + 1

OperatorChars == {"+", "-", "*", "/", "=", "!", "<", ">"}

\* the characters that make a two-character operator after c
Second(c) == IF c = "-" THEN {">", "="} ELSE {"="}

OperatorKind(text) ==
    CASE text = <<"+">> -> "Plus"        [] text = <<"+", "=">> -> "PlusAssign"
      [] text = <<"-">> -> "Minus"       [] text = <<"-", "=">> -> "MinusAssign"
      [] text = <<"-", ">">> -> "Arrow"
      [] text = <<"*">> -> "Star"        [] text = <<"*", "=">> -> "StarAssign"
      [] text = <<"/">> -> "Slash"       [] text = <<"/", "=">> -> "SlashAssign"
      [] text = <<"=">> -> "Eq"          [] text = <<"=", "=">> -> "EqEq"
      [] text = <<"!">> -> "Bang"        [] text = <<"!", "=">> -> "Neq"
      [] text = <<"<">> -> "Less"        [] text = <<"<", "=">> -> "Leq"
      [] text = <<">">> -> "Greater"     [] text = <<">", "=">> -> "Geq"

\* the operator text that starts at index i: two characters when the second
\* completes a compound, one otherwise
OperatorAt(i) ==
    IF CharAt(i + 1) \in Second(At(i)) THEN <<At(i), At(i + 1)>> ELSE <<At(i)>>

\* C17: where the next token starts with one of + - * / = ! < >, nextToken()
\* returns the two-character operator exactly when the character is directly
\* followed by = (or by > after -) and consumes two characters, and the
\* one-character operator otherwise and consumes one; never three.
C17_MaximalMunch ==
    (/\ Called("nextToken")
     /\ LayoutEnd(before.pos) \in 0..(length - 1)
     /\ At(LayoutEnd(before.pos)) \in OperatorChars) =>
        /\ status = "ok"
        /\ lastTok.lexeme = OperatorAt(LayoutEnd(before.pos))
        /\ lastTok.type = OperatorKind(lastTok.lexeme)
        /\ pos = LayoutEnd(before.pos) + Len(lastTok.lexeme)

\* C17 witness: the buffer ->= gave the arrow and then =
C17_Witness ==
    /\ source = <<"-", ">", "=">>
    /\ prevOp = "nextToken" /\ prevTok.type = "Arrow"
    /\ Called("nextToken") /\ lastTok.type = "Eq" /\ pos = 3

\* the line and the tab-expanded column of the character at index i, counted
\* from index k where they are l and c
RECURSIVE PositionFrom(_, _, _, _)
PositionFrom(i, k, l, c) ==
    IF k >= i THEN [line |-> l, col |-> c]
    ELSE IF At(k) = NL THEN PositionFrom(i, k + 1, l + 1, 1)
    ELSE IF At(k) = TAB THEN PositionFrom(i, k + 1, l, NextTabStop(c))
    ELSE PositionFrom(i, k + 1, l, c + 1)

PositionOf(i) == PositionFrom(i, 0, 1, 1)

\* C18: every token nextToken() returns carries the line and the 1-based,
\* tab-expanded column of its first character, whatever its kind and
\* whatever was lexed before it on the line.
C18_TokenPosition ==
    (/\ Called("nextToken") /\ status = "ok" /\ lastTok.type # "Eof"
     /\ LayoutEnd(before.pos) # -1) =>
        /\ lastTok.line = PositionOf(LayoutEnd(before.pos)).line
        /\ lastTok.col = PositionOf(LayoutEnd(before.pos)).col

\* a nextToken() call raised, or returned Eof where it stood, or moved on
NextTokenProgress ==
    Called("nextToken") =>
        \/ status = "raised"
        \/ status = "ok" /\ lastTok.type = "Eof" /\ pos = before.pos
        \/ status = "ok" /\ pos > before.pos

\* after Eof, Eof again
EofIsFinal ==
    (prevOp = "nextToken" /\ prevTok.type = "Eof" /\ Called("nextToken")) =>
        (status = "ok" /\ lastTok.type = "Eof" /\ pos = before.pos)

\* a statement or an expression that was parsed took at least one token:
\* the lookahead is another token than before and the lexer did not go back
ParserProgress ==
    ((Called("parseStatement") \/ Called("parseExpression")) /\ status = "ok") =>
        (current # prevTok /\ pos >= before.pos)

ParseOver == pc = "done" \/ status = "raised"

\* C19: every nextToken() call raises, or returns Eof leaving pos unchanged
\* (and Eof again at every later call), or returns a token with pos strictly
\* greater than before; a parsed statement or expression has consumed at
\* least one token; and building the Parser and calling parseProgram() (or
\* parseStatement(), parseExpression()) always comes to a return or a throw.
C19_Terminates ==
    /\ [](NextTokenProgress /\ EofIsFinal /\ ParserProgress)
    /\ (harness \in {"program", "unit"}) ~> ParseOver

\* C19 witness: a call with an argument list was parsed to its end
C19_Witness ==
    /\ harness = "unit" /\ pc = "done" /\ status = "ok"
    /\ ast.kind = "Call" /\ Len(ast.args) = 1 /\ pos > before.pos

----------------------------------------------------------------------------
(* Further properties of the parser *)

\* a BinaryOp without its operator symbol
Pair(l, r) == [kind |-> "Binary", left |-> l, right |-> r]

\* a tree without its operator symbols
RECURSIVE Shape(_)
Shape(node) ==
    IF node.kind = "Binary" THEN Pair(Shape(node.left), Shape(node.right)) ELSE node

\* the left-nested shape of the chain whose last operand is ws[k]
RECURSIVE LeftFold(_, _)
LeftFold(ws, k) ==
    IF k = 1 THEN Operand(ws[1]) ELSE Pair(LeftFold(ws, k - 2), Operand(ws[k]))

\* C16: a chain of operators of one tier (=; <=; + and -; * and /) parses
\* to the left-nested tree: the left operand of the root is the tree of the
\* chain without its last operand, the right operand is the last operand
\* alone, operands stay in source order and none is missing.
C16_LeftAssociative ==
    Called("parseExpression") =>
      \A ws \in TierChains :
        source = Join(ws) => (status = "ok" /\ Shape(ast) = LeftFold(ws, Len(ws)))

\* C16 witness: 1 <= 2 <= 3 parsed, the root holding the tree of 1 <= 2 on
\* the left and 3 on the right
C16_Witness ==
    /\ Called("parseExpression") /\ status = "ok"
    /\ source = Join(<<<<"1">>, <<"<", "=">>, <<"2">>, <<"<", "=">>, <<"3">>>>)
    /\ ast.left = BinaryExpr(<<"<", "=">>, IntExpr(1), IntExpr(2))
    /\ ast.right = IntExpr(3)


\* the buffer holds no token at all: whitespace and comments up to its end
NoTokenAtAll == LayoutEnd(0) = length

\* the parse of the program driver is over: parseProgram() returned or
\* threw, or the Parser constructor threw
ProgramParseEnded ==
    /\ harness = "program"
    /\ pc = "done" \/ (pc = "constructed" /\ status = "raised")

\* C20: parseProgram() over the lexer's tokens returns if and only if the
\* source holds no token at all, only whitespace and comments, and the
\* Program then has an empty function list; a source with at least one
\* token makes the parse fail before any Function node is completed.
C20_SucceedsOnlyWithoutTokens ==
    /\ ProgramParseEnded => (status = "ok" <=> NoTokenAtAll)
    /\ (ProgramParseEnded /\ status = "ok") => ast = Program(<<>>)
    /\ (harness = "program" /\ pc = "constructed" /\ status = "ok"
          /\ current.type # "Eof") => ~parseFunction(ParserState).ok

====
